---- MODULE Spec2Model ----
(***************************************************************************)
(* A model of backend/main.py: the roster and season-stats snapshots, the  *)
(* candidate pool builder, the 16-tier partition, the seeded case          *)
(* generator and the banker-offer resolver.                                *)
(*                                                                         *)
(* Numbers: a per-game stat is an integer, a production score is kept in   *)
(* tenths (10 * score), FG3_PCT is kept in thousandths (350 is 0.35).      *)
(***************************************************************************)
EXTENDS Integers, Sequences, FiniteSets, TLC

VARIABLES
    provider_stats,   \* the table LeagueDashPlayerStats returns right now
    provider_roster,  \* which roster data CommonTeamRoster returns
    ROSTER_META,      \* player_id -> meta (module global, line 197)
    STATS_CACHE,      \* TTLCache: season -> dataframe (line 239)
    refresh,          \* position of a build_roster_maps run, and what ran beside it
    serving,          \* the startup event has finished, requests are served
    resp,             \* the response of the handler that ran last, until delivered
    req,              \* the /game/cases_by_slot requests in flight
    rng               \* generator instance -> state of that random.Random

vars == <<provider_stats, provider_roster, ROSTER_META, STATS_CACHE, refresh,
          serving, resp, req, rng>>

----------------------------------------------------------------------------
\* Bounds of the model.

\* The largest number of rows the stats provider publishes.
MaxPool == 25

\* Seeds a client sends: 1..MaxSeed.
MaxSeed == 2

----------------------------------------------------------------------------
\* Program constants.

SEASON_2024_25 == "2024-25"

\* tiers = [[] for _ in range(16)]
NumTiers == 16

\* if len(candidates) < 16
MinPool == 16

\* gamma = 2
gamma == 2

Slots == {"PG", "SG", "SF", "PF", "C"}

\* slot=None of build_candidates
NoSlot == "<None>"

\* The teams nba_teams.get_teams() lists (two stand for the league).
Teams == <<"ATL", "BOS">>

----------------------------------------------------------------------------
\* The data the external providers return.

StatFields == {"PLAYER_ID", "GP", "MIN", "PTS", "REB", "AST", "STL", "BLK", "TOV", "FG3_PCT"}

\* What can be wrong with row BadRow of a published table.
BadKinds == {"none", "PLAYER_ID", "GP", "PTS", "FG3_PCT", "benched"}

Shapes == {"ranked", "scrambled"}

\* The row of a published table that the BadKinds are about.
BadRow == 2

\* Row i of a table: "ranked" lists the players best first, "scrambled" in no
\* order and with equal scores. malformed names the fields whose value is
\* not a number (None, "N/A").
StatRow(i, shape, bad) ==
    [ PLAYER_ID |-> i,
      GP        |-> IF bad = "benched" /\ i = BadRow THEN 0 ELSE 10,
      MIN       |-> 20,
      PTS       |-> IF shape = "ranked" THEN 80 - 2 * i ELSE (7 * i) % 30,
      REB       |-> IF shape = "ranked" THEN 5 ELSE i % 4,
      AST       |-> IF shape = "ranked" THEN 2 ELSE i % 3,
      STL       |-> IF shape = "ranked" THEN 1 ELSE i % 2,
      BLK       |-> IF shape = "ranked" THEN 0 ELSE (i + 1) % 2,
      TOV       |-> IF shape = "ranked" THEN 1 ELSE i % 3,
      FG3_PCT   |-> IF i % 2 = 0 THEN 350 ELSE 28000,
      malformed |-> IF i = BadRow /\ bad \in StatFields THEN {bad} ELSE {} ]

StatsTable(n, shape, bad) == [i \in 1..n |-> StatRow(i, shape, bad)]

StatsTables(sizes, shapes, bads) ==
    {StatsTable(n, s, b) : n \in sizes, s \in shapes, b \in bads}

RosterKinds == {"guards", "mixed"}

RawPositions == <<"G", "F", "C", "G-F", "F-C", "">>

Heights == <<"6-3", "6-9", "6-10", "", "7-0", "6-6", "tall", "6-x">>

PlayerName(pid) == <<"Player", pid>>

RosterRow(pid, kind) ==
    [ PLAYER_ID |-> pid,
      PLAYER    |-> PlayerName(pid),
      POSITION  |-> IF kind = "guards" THEN "G" ELSE RawPositions[(pid % 6) + 1],
      HEIGHT    |-> IF kind = "guards" THEN "6-3" ELSE Heights[(pid % 8) + 1],
      malformed |-> {} ]

\* The rows CommonTeamRoster returns for team number t: the players whose id
\* has the team's parity, then a row with no PLAYER_ID and a row with no name.
TeamRoster(t, kind) ==
    LET ids  == {p \in 1..(MaxPool + 1) : (p % 2) = (t % 2)}
        rows == [i \in 1..Cardinality(ids) |->
                    RosterRow(CHOOSE p \in ids : Cardinality({q \in ids : q < p}) = i - 1, kind)]
    IN  rows \o << [RosterRow(MaxPool + 2, kind) EXCEPT !.malformed = {"PLAYER_ID"}],
                   [RosterRow(MaxPool + 3, kind) EXCEPT !.PLAYER = <<>>] >>

----------------------------------------------------------------------------
\* Helpers.

\* int(height) per part of a "<feet>-<inches>" text: the texts of Heights.
\* A text without "-" gives 0, a part that is no integer raises and gives 0.
parse_height_inches(height_text) ==
    CASE height_text = "6-3"  -> 6 * 12 + 3
      [] height_text = "6-6"  -> 6 * 12 + 6
      [] height_text = "6-9"  -> 6 * 12 + 9
      [] height_text = "6-10" -> 6 * 12 + 10
      [] height_text = "7-0"  -> 7 * 12 + 0
      [] OTHER                -> 0

\* 3PT% as a percent in thousandths: 0.35 (350) becomes 35.0 (35000).
three_pt_pct(row) ==
    IF "FG3_PCT" \in row.malformed THEN 0
    ELSE IF row.FG3_PCT <= 1000 THEN row.FG3_PCT * 100 ELSE row.FG3_PCT

normalize_position(raw_pos, height_text, fg3_pct_percent) ==
    LET h == parse_height_inches(height_text) IN
    CASE raw_pos = "F-C" -> (IF h >= 82 THEN "C" ELSE "PF")
      [] raw_pos = "F"   -> (IF h >= 81 THEN "PF"
                             ELSE IF fg3_pct_percent >= 32000 THEN "SF" ELSE "PF")
      [] raw_pos = "G-F" -> (IF h >= 78 THEN "SF" ELSE "SG")
      [] raw_pos = "G"   -> (IF h >= 77 THEN "SG" ELSE "PG")
      [] raw_pos = "C"   -> "C"
      [] OTHER           -> "SF"

ScoreFields == {"PTS", "REB", "AST", "STL", "BLK", "TOV"}

\* float(row.get(f, 0)) succeeds for every field of the score.
ScoreParses(row) == row.malformed \cap ScoreFields = {}

\* The score in tenths.
production_score_pergame(row) ==
    10 * row.PTS + 12 * row.REB + 15 * row.AST + 30 * row.STL + 30 * row.BLK - 20 * row.TOV

Min(a, b) == IF a < b THEN a ELSE b

Max(a, b) == IF a > b THEN a ELSE b

clamp_tier(t) == Max(1, Min(NumTiers, t))

\* slot.upper().strip() on the slot texts the model sends.
UpperStrip(s) ==
    CASE s = " pg " -> "PG"
      [] OTHER      -> s

RECURSIVE Power(_, _)
Power(x, e) == IF e = 0 THEN 1 ELSE x * Power(x, e - 1)

\* The 0-based tier of the player at 0-based place i of n: with
\* rank = 1 - i/(n-1), 15 - int(rank^gamma * 16), clamped to 0..15. The
\* quotient is taken on the integers (n-1-i)^2 * 16 and (n-1)^2.
TierIdx(i, n) ==
    LET scaled == IF n > 1
                  THEN (Power(n - 1 - i, gamma) * NumTiers) \div Power(n - 1, gamma)
                  ELSE NumTiers
    IN  Min(NumTiers - 1, Max(0, (NumTiers - 1) - scaled))

RECURSIVE FillTiers(_, _, _)
FillTiers(players, i, tiers) ==
    IF i > Len(players) THEN tiers
    ELSE FillTiers(players, i + 1,
            [tiers EXCEPT ![TierIdx(i - 1, Len(players)) + 1] = Append(@, players[i])])

\* tiers[1..16], each the players of that tier in the order of the input.
split_into_16_tiers(players_sorted_desc) ==
    FillTiers(players_sorted_desc, 1, [k \in 1..NumTiers |-> <<>>])

----------------------------------------------------------------------------
\* Rosters (lines 197-233).

EmptyMap == <<>>

\* int(row.get("PLAYER_ID")) and the str(...) of the other columns succeed.
RosterRowParses(row) == "PLAYER_ID" \notin row.malformed

\* ROSTER_META[pid] = {...}
PutMeta(meta, pid, entry) ==
    [p \in (DOMAIN meta) \cup {pid} |-> IF p = pid THEN entry ELSE meta[p]]

\* for _, row in df.iterrows(): the rows of one team written into the map.
RECURSIVE InsertRows(_, _, _, _)
InsertRows(meta, rows, i, team_name) ==
    IF i > Len(rows) THEN meta
    ELSE LET row == rows[i] IN
         IF ~RosterRowParses(row) THEN InsertRows(meta, rows, i + 1, team_name)
         ELSE IF row.PLAYER_ID = 0 \/ row.PLAYER = <<>>
              THEN InsertRows(meta, rows, i + 1, team_name)
         ELSE InsertRows(
                PutMeta(meta, row.PLAYER_ID,
                        [name |-> row.PLAYER, team |-> team_name,
                         raw_pos |-> row.POSITION, height |-> row.HEIGHT]),
                rows, i + 1, team_name)

\* The map a run of build_roster_maps leaves when the teams of `fetched`
\* answer and the others raise.
RECURSIVE RosterOf(_, _, _, _)
RosterOf(kind, fetched, t, meta) ==
    IF t > Len(Teams) THEN meta
    ELSE RosterOf(kind, fetched, t + 1,
                  IF t \in fetched
                  THEN InsertRows(meta, TeamRoster(t, kind), 1, Teams[t])
                  ELSE meta)

\* The emptiness test left out: no map counts as empty.
RosterNeverEmpty(meta) == FALSE

\* len(ROSTER_META) == 0
RosterIsEmpty(meta) == Cardinality(DOMAIN meta) = 0

----------------------------------------------------------------------------
\* Season stats (lines 239-252).

CacheHas(cache) == SEASON_2024_25 \in DOMAIN cache

\* The dataframe get_season_stats_df returns: the cached one while the cache
\* holds the season, else the provider's.
get_season_stats_df(cache, provider) ==
    IF CacheHas(cache) THEN cache[SEASON_2024_25] ELSE provider

\* STATS_CACHE after get_season_stats_df.
CacheAfterGet(cache, provider) ==
    IF CacheHas(cache) THEN cache ELSE [k \in {SEASON_2024_25} |-> provider]

----------------------------------------------------------------------------
\* Candidates (lines 255-311).

\* An uncaught exception of a handler: FastAPI answers 500.
Unhandled == [status |-> 500, detail |-> "unhandled", candidates |-> <<>>]

Candidate(row, meta) ==
    [id |-> row.PLAYER_ID, name |-> meta.name, team |-> meta.team,
     score |-> production_score_pergame(row)]

\* for _, row in df.iterrows(): ... candidates.append(...)
RECURSIVE ScanRows(_, _, _, _, _)
ScanRows(df, i, roster, slot_norm, candidates) ==
    IF i > Len(df)
    THEN [status |-> 200, detail |-> "ok", candidates |-> candidates]
    ELSE LET row == df[i] IN
         IF "PLAYER_ID" \in row.malformed
         THEN ScanRows(df, i + 1, roster, slot_norm, candidates)
         ELSE IF row.PLAYER_ID \notin DOMAIN roster
         THEN ScanRows(df, i + 1, roster, slot_norm, candidates)
         ELSE IF row.malformed \cap {"GP", "MIN"} # {}
         THEN Unhandled
         ELSE IF row.GP <= 0 \/ row.MIN <= 0
         THEN ScanRows(df, i + 1, roster, slot_norm, candidates)
         ELSE IF slot_norm # NoSlot
                 /\ normalize_position(roster[row.PLAYER_ID].raw_pos,
                                       roster[row.PLAYER_ID].height,
                                       three_pt_pct(row)) # slot_norm
         THEN ScanRows(df, i + 1, roster, slot_norm, candidates)
         ELSE IF ~ScoreParses(row)
         THEN Unhandled
         ELSE ScanRows(df, i + 1, roster, slot_norm,
                       Append(candidates, Candidate(row, roster[row.PLAYER_ID])))

\* slot is None, or names a slot once upper-cased and stripped.
SlotAccepted(slot) == slot = NoSlot \/ UpperStrip(slot) \in Slots

SlotNorm(slot) == IF slot = NoSlot THEN NoSlot ELSE UpperStrip(slot)

\* build_candidates(slot) on the dataframe df and the roster map.
build_candidates(df, roster, slot) ==
    IF ~SlotAccepted(slot)
    THEN [status |-> 400, detail |-> "slot", candidates |-> <<>>]
    ELSE IF RosterIsEmpty(roster)
    THEN [status |-> 503, detail |-> "roster", candidates |-> <<>>]
    ELSE ScanRows(df, 1, roster, SlotNorm(slot), <<>>)

\* list.sort(key=score, reverse=True): stable, equal scores keep their order.
\* c put into the descending list after every element of a score not below
\* its own.
InsertDesc(sorted, c) ==
    LET ahead == Cardinality({j \in DOMAIN sorted : sorted[j].score >= c.score})
    IN  [i \in 1..(Len(sorted) + 1) |->
            IF i <= ahead THEN sorted[i]
            ELSE IF i = ahead + 1 THEN c
            ELSE sorted[i - 1]]

RECURSIVE SortFrom(_, _, _)
SortFrom(candidates, i, sorted) ==
    IF i > Len(candidates) THEN sorted
    ELSE SortFrom(candidates, i + 1, InsertDesc(sorted, candidates[i]))

SortDesc(candidates) == SortFrom(candidates, 1, <<>>)

----------------------------------------------------------------------------
\* random.Random: a generator whose state is a number below 2^16. Seeding
\* and stepping are deterministic, one step per _randbelow.

RngSeed(seed) == (seed * 7919 + 104729) % 65536

RngNext(s) == (s * 25173 + 13849) % 65536

\* The number _randbelow(n) draws from state s: 0..n-1.
RandBelow(s, n) == (RngNext(s) \div 256) % n

\* rng.choice(seq)
Choice(seq, s) == seq[RandBelow(s, Len(seq)) + 1]

Swap(x, i, j) == [x EXCEPT ![i] = x[j], ![j] = x[i]]

\* rng.shuffle(x): for i in reversed(range(1, len(x))): j = randbelow(i+1);
\* x[i], x[j] = x[j], x[i]   (places counted from 1 here)
RECURSIVE ShuffleFrom(_, _, _)
ShuffleFrom(x, i, s) ==
    IF i < 2 THEN [list |-> x, state |-> s]
    ELSE ShuffleFrom(Swap(x, i, RandBelow(s, i) + 1), i - 1, RngNext(s))

Shuffle(x, s) == ShuffleFrom(x, Len(x), s)

----------------------------------------------------------------------------
\* Cases (lines 314-342).

\* Every request shares one module-level generator.
RngInstanceShared(r) == "shared"

\* rng = random.Random(seed): a generator of the request's own.
RngInstance(r) == r

\* The pick taken from the tier before.
TierPickBefore(tiers, tier_index, s) == Choice(tiers[Max(1, tier_index - 1)], s)

\* pick = rng.choice(tier_players) for tier tier_index
TierPick(tiers, tier_index, s) == Choice(tiers[tier_index], s)

\* The cases list built from the shuffled picks.
CasesOf(chosen) ==
    [i \in 1..Len(chosen) |->
        [case   |-> i,
         tier   |-> chosen[i].tier,
         player |-> [id |-> chosen[i].player.id, name |-> chosen[i].player.name,
                     team |-> chosen[i].player.team],
         score  |-> chosen[i].player.score]]

----------------------------------------------------------------------------
\* Banker offer (lines 381-441).

\* exclude_ids split at ",": a part is an integer text, a text int() refuses,
\* or blank. The ids lo..hi, then "x" and a blank part; "" when lo > hi.
ExcludeIds(lo, hi) ==
    IF lo > hi THEN <<>>
    ELSE [i \in 1..(hi - lo + 1) |-> [kind |-> "int", v |-> lo + i - 1]]
         \o << [kind |-> "junk", v |-> 0], [kind |-> "blank", v |-> 0] >>

\* exclude: the parts int() accepts.
ParseExclude(parts) == {parts[i].v : i \in {j \in DOMAIN parts : parts[j].kind = "int"}}

\* The higher tier tried before the lower.
RECURSIVE TierOrderHiFirst(_, _, _)
TierOrderHiFirst(desired, d, order) ==
    IF d > NumTiers - 1 THEN order
    ELSE LET lo == desired - d
             hi == desired + d
             o1 == IF hi <= NumTiers THEN Append(order, hi) ELSE order
             o2 == IF lo >= 1 THEN Append(o1, lo) ELSE o1
         IN  TierOrderHiFirst(desired, d + 1, o2)

\* for d in range(1, 16): append lo if lo >= 1, append hi if hi <= 16
RECURSIVE TierOrderFrom(_, _, _)
TierOrderFrom(desired, d, order) ==
    IF d > NumTiers - 1 THEN order
    ELSE LET lo == desired - d
             hi == desired + d
             o1 == IF lo >= 1 THEN Append(order, lo) ELSE order
             o2 == IF hi <= NumTiers THEN Append(o1, hi) ELSE o1
         IN  TierOrderFrom(desired, d + 1, o2)

TierOrder(desired) == TierOrderFrom(desired, 1, <<desired>>)

\* Every player of the tier, excluded or not.
WholeTier(tier, exclude) == tier

\* pool = [p for p in tiers[t - 1] if int(p["id"]) not in exclude]
AvailablePool(tier, exclude) == SelectSeq(tier, LAMBDA p : p.id \notin exclude)

\* for t in tier_order: the place in the order of the first tier with a
\* non-empty pool, 0 when there is none.
RECURSIVE FirstOpen(_, _, _, _)
FirstOpen(tiers, tier_order, i, exclude) ==
    IF i > Len(tier_order) THEN 0
    ELSE IF AvailablePool(tiers[tier_order[i]], exclude) # <<>> THEN i
    ELSE FirstOpen(tiers, tier_order, i + 1, exclude)

Failure(status, detail) == [kind |-> "error", status |-> status, detail |-> detail]

\* The loop over tier_order and its outcome: the pick of the first tier with
\* a non-empty pool, or 404.
SearchTiers(tiers, slot_norm, desired, seed, exclude) ==
    LET order == TierOrder(desired)
        at    == FirstOpen(tiers, order, 1, exclude)
        pick  == Choice(AvailablePool(tiers[order[at]], exclude), RngSeed(seed))
    IN  IF at = 0
        THEN [kind |-> "not_found", status |-> 404, detail |-> "no offer",
              slot |-> slot_norm, exclude |-> exclude]
        ELSE [kind |-> "banker_offer", status |-> 200, detail |-> "ok",
              slot |-> slot_norm, target_tier |-> desired, picked_tier |-> order[at],
              player |-> [id |-> pick.id, name |-> pick.name, team |-> pick.team],
              exclude |-> exclude]

\* banker_offer(slot, target_tier, seed, exclude_ids) on the dataframe df and
\* the roster map. The parsed exclude set is kept beside the response.
banker_offer(df, roster, slot, target_tier, seed, exclude_ids) ==
    LET slot_norm == UpperStrip(slot)
        built     == build_candidates(df, roster, slot_norm)
        sorted    == SortDesc(built.candidates)
    IN  IF target_tier < 1 \/ target_tier > NumTiers
        THEN Failure(422, "target_tier")
        ELSE IF slot_norm \notin Slots
        THEN Failure(400, "slot")
        ELSE IF built.status # 200
        THEN Failure(built.status, built.detail)
        ELSE IF Len(sorted) < MinPool
        THEN Failure(400, "not enough")
        ELSE SearchTiers(split_into_16_tiers(sorted), slot_norm, clamp_tier(target_tier),
                         seed, ParseExclude(exclude_ids))

----------------------------------------------------------------------------
\* The state machine.

Reqs == {"r1", "r2"}

Instances == Reqs \cup {"shared"}

Seeds == 1..MaxSeed

\* The slot texts a client sends.
SlotArgs == {"PG", " pg ", "XX"}

\* target_tier as sent: Query(ge=1, le=16) refuses 0 and 17.
TargetArgs == 0..(NumTiers + 1)

\* The longest run of ids a banker request excludes, short of all of them.
MaxExclude == 4

NoResp == [kind |-> "none"]

IdleReq ==
    [pc |-> "idle", seed |-> 0, slot |-> "", tiers |-> <<>>, k |-> 0,
     chosen |-> <<>>, out |-> NoResp]

IdleRefresh == [pc |-> "idle", t |-> 0, before |-> EmptyMap, reads |-> {}]

AllTeams == 1..Len(Teams)

\* The tables the stats provider has for the season, one wrong in each way.
SeasonTables == StatsTables({MaxPool}, {"ranked"}, BadKinds)

\* Module load: both snapshots empty, the startup event still to run.
Init ==
    /\ provider_stats \in SeasonTables
    /\ provider_roster \in RosterKinds
    /\ ROSTER_META = EmptyMap
    /\ STATS_CACHE = EmptyMap
    /\ refresh = [IdleRefresh EXCEPT !.pc = "startup"]
    /\ serving = FALSE
    /\ resp = NoResp
    /\ req = [r \in Reqs |-> IdleReq]
    /\ rng = [i \in Instances |-> 0]

\* A served process: the startup run loaded every team; the stats cache is
\* empty, or holds the provider's table once `cached`.
Loaded(tables, kinds, cached) ==
    /\ provider_stats \in tables
    /\ provider_roster \in kinds
    /\ ROSTER_META = RosterOf(provider_roster, AllTeams, 1, EmptyMap)
    /\ STATS_CACHE = IF cached THEN CacheAfterGet(EmptyMap, provider_stats) ELSE EmptyMap
    /\ refresh = IdleRefresh
    /\ serving = TRUE
    /\ resp = NoResp
    /\ req = [r \in Reqs |-> IdleReq]
    /\ rng = [i \in Instances |-> 0]

InitStats == Loaded(SeasonTables, {"mixed"}, FALSE)

InitSession == Loaded(StatsTables({MinPool - 1, MinPool, MaxPool}, Shapes, {"none"}), RosterKinds, TRUE)

\* A pool of MinPool + 3 leaves tiers empty (tier 6 among them), one of MaxPool
\* leaves none.
InitBanker == Loaded(StatsTables({MinPool + 3, MaxPool}, Shapes, {"none"}), {"guards"}, TRUE)

\* build_roster_maps, first statement: ROSTER_META = {}
ResetRoster ==
    /\ refresh' = [pc |-> "loop", t |-> 1, before |-> ROSTER_META, reads |-> {}]
    /\ ROSTER_META' = EmptyMap

\* on_startup
OnStartup ==
    /\ refresh.pc = "startup"
    /\ ResetRoster
    /\ UNCHANGED <<provider_stats, provider_roster, STATS_CACHE, serving, resp, req, rng>>

\* POST /admin/refresh_rosters
RefreshRosters ==
    /\ serving
    /\ refresh.pc = "idle"
    /\ ResetRoster
    /\ UNCHANGED <<provider_stats, provider_roster, STATS_CACHE, serving, resp, req, rng>>

\* One team of the loop: CommonTeamRoster answers and its rows are written.
TeamLoaded ==
    /\ refresh.pc = "loop"
    /\ refresh.t <= Len(Teams)
    /\ ROSTER_META' = InsertRows(ROSTER_META, TeamRoster(refresh.t, provider_roster),
                                 1, Teams[refresh.t])
    /\ refresh' = [refresh EXCEPT !.t = @ + 1]
    /\ UNCHANGED <<provider_stats, provider_roster, STATS_CACHE, serving, resp, req, rng>>

\* One team of the loop: CommonTeamRoster raises, the team is skipped.
TeamFailed ==
    /\ refresh.pc = "loop"
    /\ refresh.t <= Len(Teams)
    /\ refresh' = [refresh EXCEPT !.t = @ + 1]
    /\ UNCHANGED <<provider_stats, provider_roster, ROSTER_META, STATS_CACHE, serving,
                   resp, req, rng>>

\* build_roster_maps returns; after the startup run requests are served.
RefreshDone ==
    /\ refresh.pc = "loop"
    /\ refresh.t > Len(Teams)
    /\ refresh' = [refresh EXCEPT !.pc = "idle"]
    /\ serving' = TRUE
    /\ UNCHANGED <<provider_stats, provider_roster, ROSTER_META, STATS_CACHE, resp, req, rng>>

\* The stats provider has new data.
StatsProviderPublish(table) ==
    /\ table # provider_stats
    /\ provider_stats' = table
    /\ UNCHANGED <<provider_roster, ROSTER_META, STATS_CACHE, refresh, serving, resp, req, rng>>

\* The cached dataframe is older than ttl = 60 * 60 seconds.
TtlExpire ==
    /\ CacheHas(STATS_CACHE)
    /\ STATS_CACHE' = EmptyMap
    /\ UNCHANGED <<provider_stats, provider_roster, ROSTER_META, refresh, serving, resp, req, rng>>

\* build_candidates(slot) as a request of its own.
BuildPool(slot) ==
    /\ serving
    /\ resp = NoResp
    /\ LET df    == get_season_stats_df(STATS_CACHE, provider_stats)
           built == build_candidates(df, ROSTER_META, slot)
       IN  resp' = [kind |-> "build_pool", status |-> built.status,
                    detail |-> built.detail, candidates |-> built.candidates,
                    slot |-> slot, rosterSeen |-> ROSTER_META, statsSeen |-> df]
    /\ STATS_CACHE' = CacheAfterGet(STATS_CACHE, provider_stats)
    /\ refresh' = IF refresh.pc = "loop"
                  THEN [refresh EXCEPT !.reads = @ \cup {ROSTER_META}]
                  ELSE refresh
    /\ UNCHANGED <<provider_stats, provider_roster, ROSTER_META, serving, req, rng>>

\* POST /admin/refresh_stats
RefreshStats ==
    /\ serving
    /\ resp = NoResp
    /\ LET df == get_season_stats_df(STATS_CACHE, provider_stats)
       IN  resp' = [kind |-> "refresh_stats", status |-> 200, rows |-> Len(df),
                    provider |-> provider_stats, snapshot |-> df]
    /\ STATS_CACHE' = CacheAfterGet(STATS_CACHE, provider_stats)
    /\ UNCHANGED <<provider_stats, provider_roster, ROSTER_META, refresh, serving, req, rng>>

\* The response leaves.
Deliver ==
    /\ resp # NoResp
    /\ resp' = NoResp
    /\ UNCHANGED <<provider_stats, provider_roster, ROSTER_META, STATS_CACHE, refresh,
                   serving, req, rng>>

\* Startup, roster refreshes and pool builds beside them.
Next ==
    \/ OnStartup
    \/ RefreshRosters
    \/ TeamLoaded
    \/ TeamFailed
    \/ RefreshDone
    \/ \E slot \in SlotArgs \cup {NoSlot} : BuildPool(slot)
    \/ Deliver

Spec == Init /\ [][Next]_vars

\* The stats snapshot: provider updates, expiry, refreshes and pool builds.
NextStats ==
    \/ \E table \in SeasonTables : StatsProviderPublish(table)
    \/ TtlExpire
    \/ \E slot \in SlotArgs \cup {NoSlot} : BuildPool(slot)
    \/ RefreshStats
    \/ Deliver

SpecStats == InitStats /\ [][NextStats]_vars

----------------------------------------------------------------------------
\* GET /game/cases_by_slot, a step at a time.

Finished(r, out) == [req[r] EXCEPT !.pc = "done", !.out = out]

\* build_candidates, the sort, the length check, the partition, the seeding.
SessionBegin(r, seed, slot) ==
    /\ serving
    /\ req[r].pc = "idle"
    /\ LET df     == get_season_stats_df(STATS_CACHE, provider_stats)
           built  == build_candidates(df, ROSTER_META, slot)
           sorted == SortDesc(built.candidates)
           began  == [IdleReq EXCEPT !.seed = seed, !.slot = slot]
       IN  IF built.status # 200
           THEN /\ req' = [req EXCEPT ![r] = [began EXCEPT !.pc = "done",
                                !.out = Failure(built.status, built.detail)]]
                /\ rng' = rng
           ELSE IF Len(sorted) < MinPool
           THEN /\ req' = [req EXCEPT ![r] = [began EXCEPT !.pc = "done",
                                !.out = Failure(400, "not enough")]]
                /\ rng' = rng
           ELSE /\ req' = [req EXCEPT ![r] = [began EXCEPT !.pc = "draw", !.k = 1,
                                !.tiers = split_into_16_tiers(sorted)]]
                /\ rng' = [rng EXCEPT ![RngInstance(r)] = RngSeed(seed)]
    /\ STATS_CACHE' = CacheAfterGet(STATS_CACHE, provider_stats)
    /\ UNCHANGED <<provider_stats, provider_roster, ROSTER_META, refresh, serving, resp>>

\* One turn of the loop over the tiers.
SessionDraw(r) ==
    /\ req[r].pc = "draw"
    /\ req[r].k <= NumTiers
    /\ IF req[r].tiers[req[r].k] = <<>>
       THEN /\ req' = [req EXCEPT ![r] = Finished(r, Failure(500, "tier empty"))]
            /\ rng' = rng
       ELSE /\ req' = [req EXCEPT ![r].k = @ + 1,
                         ![r].chosen = Append(@, [tier |-> req[r].k,
                             player |-> TierPick(req[r].tiers, req[r].k,
                                                 rng[RngInstance(r)])])]
            /\ rng' = [rng EXCEPT ![RngInstance(r)] = RngNext(@)]
    /\ UNCHANGED <<provider_stats, provider_roster, ROSTER_META, STATS_CACHE, refresh,
                   serving, resp>>

\* rng.shuffle(chosen), the cases, the response.
SessionShuffle(r) ==
    /\ req[r].pc = "draw"
    /\ req[r].k = NumTiers + 1
    /\ LET sh == Shuffle(req[r].chosen, rng[RngInstance(r)])
       IN  /\ req' = [req EXCEPT ![r] = Finished(r,
                        [kind |-> "cases", status |-> 200, seed |-> req[r].seed,
                         slot |-> UpperStrip(req[r].slot), cases |-> CasesOf(sh.list)])]
           /\ rng' = [rng EXCEPT ![RngInstance(r)] = sh.state]
    /\ UNCHANGED <<provider_stats, provider_roster, ROSTER_META, STATS_CACHE, refresh,
                   serving, resp>>

\* The response leaves.
SessionReturn(r) ==
    /\ req[r].pc = "done"
    /\ req' = [req EXCEPT ![r] = IdleReq]
    /\ UNCHANGED <<provider_stats, provider_roster, ROSTER_META, STATS_CACHE, refresh,
                   serving, resp, rng>>

NextSession ==
    \/ \E r \in Reqs, seed \in Seeds, slot \in SlotArgs : SessionBegin(r, seed, slot)
    \/ \E r \in Reqs : SessionDraw(r)
    \/ \E r \in Reqs : SessionShuffle(r)
    \/ \E r \in Reqs : SessionReturn(r)

SpecSession == InitSession /\ [][NextSession]_vars

----------------------------------------------------------------------------
\* GET /game/banker_offer.

\* The exclude_ids texts a client sends: none, a run of at most MaxExclude
\* ids, or every id.
ExcludeRuns ==
    {<<1, 0>>, <<1, MaxPool + 1>>}
    \cup {run \in (1..MaxPool) \X (1..MaxPool) :
            run[2] >= run[1] /\ run[2] - run[1] < MaxExclude}

BankerOffer(slot, target_tier, seed, lo, hi) ==
    /\ serving
    /\ resp = NoResp
    /\ resp' = banker_offer(get_season_stats_df(STATS_CACHE, provider_stats), ROSTER_META,
                            slot, target_tier, seed, ExcludeIds(lo, hi))
    /\ STATS_CACHE' = CacheAfterGet(STATS_CACHE, provider_stats)
    /\ UNCHANGED <<provider_stats, provider_roster, ROSTER_META, refresh, serving, req, rng>>

NextBanker ==
    \/ \E slot \in SlotArgs, target_tier \in TargetArgs, seed \in Seeds, run \in ExcludeRuns :
            BankerOffer(slot, target_tier, seed, run[1], run[2])
    \/ Deliver

SpecBanker == InitBanker /\ [][NextBanker]_vars

----------------------------------------------------------------------------
\* Properties.

\* The sorted candidate pool of a slot under the snapshots as they stand.
PoolFor(slot) ==
    SortDesc(build_candidates(get_season_stats_df(STATS_CACHE, provider_stats),
                              ROSTER_META, slot).candidates)

Partitioned(r) == req[r].pc \in {"draw", "done"} /\ req[r].tiers # <<>>

\* How many places of the tiers hold candidate c.
PlacesOf(tiers, c) ==
    Cardinality({kj \in (1..NumTiers) \X (1..(MaxPool + 1)) :
                    kj[2] <= Len(tiers[kj[1]]) /\ tiers[kj[1]][kj[2]] = c})

\* C1: a pool of 16 or more sorted candidates is split into exactly 16 tiers,
\* none of them empty, and every candidate of the pool is in exactly one tier.
C1_SixteenNonEmptyTiers ==
    \A r \in Reqs :
        Partitioned(r) =>
            \A pool \in {PoolFor(req[r].slot)} :
            Len(pool) >= MinPool =>
            /\ DOMAIN req[r].tiers = 1..NumTiers
            /\ \A k \in 1..NumTiers : req[r].tiers[k] # <<>>
            /\ \A i \in DOMAIN pool : PlacesOf(req[r].tiers, pool[i]) = 1
            /\ \A k \in 1..NumTiers : \A j \in DOMAIN req[r].tiers[k] :
                   \E i \in DOMAIN pool : pool[i] = req[r].tiers[k][j]

\* C2: a pool of exactly 16 candidates puts exactly one candidate in each of
\* the 16 tiers.
C2_OnePerTierAtSixteen ==
    \A r \in Reqs :
        Partitioned(r) /\ Len(PoolFor(req[r].slot)) = MinPool =>
            \A k \in 1..NumTiers : Len(req[r].tiers[k]) = 1

\* The tiers of the banker's pool for the slot of the response.
BankerTiers == split_into_16_tiers(PoolFor(resp.slot))

\* Tier t of tiers still has a candidate outside the exclusion set.
Open(tiers, t) == \E j \in DOMAIN tiers[t] : tiers[t][j].id \notin resp.exclude

\* The place of tier t in the order target, target-1, target+1, target-2, ...
Place(t, target) ==
    IF t = target THEN 0
    ELSE IF t < target THEN 2 * (target - t) - 1
    ELSE 2 * (t - target)

C4_PickNotExcludedInPickedTier ==
    resp.kind \in {"banker_offer", "not_found"} =>
        \A tiers \in {BankerTiers} :
            IF resp.kind = "banker_offer"
            THEN /\ resp.player.id \notin resp.exclude
                 /\ resp.picked_tier \in 1..NumTiers
                 /\ \E j \in DOMAIN tiers[resp.picked_tier] :
                        \A p \in {tiers[resp.picked_tier][j]} :
                            resp.player = [id |-> p.id, name |-> p.name, team |-> p.team]
            ELSE \A t \in 1..NumTiers : ~Open(tiers, t)

\* C4 happens: an offer whose target tier has candidates, all of them
\* excluded, picked from another tier.
C4_Witness ==
    /\ resp.kind = "banker_offer"
    /\ resp.picked_tier # resp.target_tier
    /\ \A tiers \in {BankerTiers} :
       tiers[resp.target_tier] # <<>> /\ ~Open(tiers, resp.target_tier)

\* The generator state n draws after seeding with seed.
RECURSIVE RngAfter(_, _)
RngAfter(seed, n) == IF n = 0 THEN RngSeed(seed) ELSE RngNext(RngAfter(seed, n - 1))

\* C5: two sessions with the same seed and slot over the same snapshots (the
\* snapshots never change under SpecSession) make the same picks at every
\* step and return the same response, however their steps and those of other
\* sessions interleave; the generator a session draws from is the one seeded
\* from its seed and stepped by its own draws only, tier 1 first.
C5_SameSeedSameCases ==
    /\ \A r1, r2 \in Reqs :
        (req[r1].pc # "idle" /\ req[r2].pc # "idle"
         /\ req[r1].seed = req[r2].seed /\ req[r1].slot = req[r2].slot) =>
            /\ (req[r1].pc = "done" /\ req[r2].pc = "done") => req[r1].out = req[r2].out
            /\ (req[r1].k = req[r2].k) => req[r1].chosen = req[r2].chosen
    /\ \A r \in Reqs :
        req[r].pc = "draw" =>
            /\ rng[RngInstance(r)] = RngAfter(req[r].seed, req[r].k - 1)
            /\ \A i \in DOMAIN req[r].chosen : req[r].chosen[i].tier = i

\* C5 happens: two finished sessions of one seed and slot, 16 cases each.
C5_Witness ==
    \E r1, r2 \in Reqs :
        /\ r1 # r2
        /\ req[r1].pc = "done" /\ req[r2].pc = "done"
        /\ req[r1].seed = req[r2].seed /\ req[r1].slot = req[r2].slot
        /\ req[r1].out.kind = "cases"
        /\ req[r2].out.kind = "cases"

\* C6: a successful session returns 16 cases numbered 1..16, with the tiers
\* 1..16 once each, and each case's player is a member of that case's tier
\* in the partition of the candidate pool.
C6_CasesPermuteTiers ==
    \A r \in Reqs :
        req[r].out.kind = "cases" =>
            \A cases \in {req[r].out.cases}, tiers \in {split_into_16_tiers(PoolFor(req[r].slot))} :
                /\ Len(cases) = NumTiers
                /\ \A i \in 1..NumTiers : cases[i].case = i
                /\ \A t \in 1..NumTiers :
                       Cardinality({i \in DOMAIN cases : cases[i].tier = t}) = 1
                /\ \A i \in DOMAIN cases :
                       /\ cases[i].tier \in 1..NumTiers
                       /\ \E j \in DOMAIN tiers[cases[i].tier] :
                              \A p \in {tiers[cases[i].tier][j]} :
                              cases[i].player = [id |-> p.id, name |-> p.name,
                                                 team |-> p.team]

\* C6 happens: a session returned cases whose order is not the tier order.
C6_Witness ==
    \E r \in Reqs :
        /\ req[r].out.kind = "cases"
        /\ \E i \in DOMAIN req[r].out.cases : req[r].out.cases[i].tier # i

WellFormedCandidates(df, roster, slot) ==
    ScanRows(SelectSeq(df, LAMBDA row : row.malformed = {}), 1, roster,
             SlotNorm(slot), <<>>).candidates

\* C8: a stats row with a malformed numeric field or an unparseable player id
\* never aborts build_pool: the build completes and returns the candidates
\* of all the well-formed eligible rows.
C8_MalformedRowNeverAborts ==
    (resp.kind = "build_pool" /\ SlotAccepted(resp.slot) /\ resp.rosterSeen # EmptyMap) =>
        /\ resp.status = 200
        /\ \A expected \in {WellFormedCandidates(resp.statsSeen, resp.rosterSeen, resp.slot)} :
               \A i \in DOMAIN expected :
                   \E j \in DOMAIN resp.candidates : resp.candidates[j] = expected[i]

\* C9: the roster is replaced wholesale: every pool build that ran beside a
\* refresh_rosters run read the complete roster from before the run or the
\* complete roster the run produced, never an empty or partly filled one.
C9_RosterReplacedWholesale ==
    (serving /\ refresh.pc = "idle") =>
        refresh.reads \subseteq {refresh.before, ROSTER_META}

\* C10: after refresh_stats the stats snapshot (what the next build_pool
\* reads) is the provider's data as of that call, also when the snapshot
\* before was still fresh.
C10_RefreshStatsRefetches ==
    resp.kind = "refresh_stats" => resp.snapshot = resp.provider

====
